---- MODULE Spec2Model ----
(***************************************************************************)
(* Model of flag/models.py (django-flag): the FlaggedContent aggregate,    *)
(* the FlagInstance records and FlagInstanceManager.add.                    *)
(*                                                                          *)
(* The database is two tables (sets of rows).  Every ORM write commits on  *)
(* its own: models.py opens no transaction.                                 *)
(***************************************************************************)
EXTENDS Integers, Sequences, FiniteSets, TLC

\* ---------------------------------------------------------------- values

\* Python's None for an integer argument or setting (status, limit).
None == -1
\* Python's None for a user reference (creator, moderator) and for a comment.
NoUser == "None"
NoComment == "None"

Users == {"u1", "u2"}
\* content objects: <<app_label.model, object id>>
Objects == {<<"app.a", 1>>}
\* STATUSES[0][0], the default (pending) status
DefaultStatus == 1
Statuses == {1, 2}
StatusArgs == {None} \cup Statuses
CreatorArgs == {NoUser, "u1"}
\* a comment argument: None, the empty string, a text
Comments == {NoComment, "spam"}

\* the exceptions of flag.exceptions, and no exception
NoExc == "ok"
ModelCannotBeFlaggedException == "ModelCannotBeFlaggedException"
ContentFlaggedEnoughException == "ContentFlaggedEnoughException"
ContentAlreadyFlaggedByUserException == "ContentAlreadyFlaggedByUserException"
FlagCommentException == "FlagCommentException"

\* ---------------------------------------------------------------- bounds

\* adds are accepted while fewer than MaxFlags flag instances are persisted
MaxFlags == 2

\* SpecStatus: adds are accepted while at most MaxStatusFlags flag instances
\* are persisted
MaxStatusFlags == 3

\* MailSpec: adds are accepted while at most MaxMailFlags flag instances are
\* persisted
MaxMailFlags == 20
\* SpecRules: adds are accepted while at most MaxRuleFlags flag instances are
\* stored
MaxRuleFlags == 8

\* the settings the model is checked under
ModelsChoices == {<<>>, <<"app.b">>}
LimitForObjectChoices == {None, 2}
LimitSameObjectForUserChoices == {None, 1}
RulesChoices == {<<>>, <<<<1, 1>>, <<2, 2>>>>}

\* ---------------------------------------------------------------- state

VARIABLES
    MODELS,                      \* flag_settings.MODELS: <<>> is None, else <<allowed models>>
    LIMIT_FOR_OBJECT,            \* per-object limit, None when not set
    LIMIT_SAME_OBJECT_FOR_USER,  \* per-user limit, None when not set
    ALLOW_COMMENTS,
    SEND_MAILS,
    SEND_MAILS_RULES,            \* sequence of <<min_count, step>>
    SEND_MAILS_TO,               \* sequence of recipients
    smtp_up,                     \* the mail transport accepts messages
    flagged_contents,            \* table of FlaggedContent rows
    flag_instances,              \* table of FlagInstance rows
    ret,                         \* the last call run one at a time: arguments, outcome
    calls                        \* concurrent calls of add: the state of each process

\* the settings, and the state of the mail transport
settings == <<MODELS, LIMIT_FOR_OBJECT, LIMIT_SAME_OBJECT_FOR_USER,
              ALLOW_COMMENTS, SEND_MAILS, SEND_MAILS_RULES, SEND_MAILS_TO,
              smtp_up>>
vars == <<MODELS, LIMIT_FOR_OBJECT, LIMIT_SAME_OBJECT_FOR_USER,
          ALLOW_COMMENTS, SEND_MAILS, SEND_MAILS_RULES, SEND_MAILS_TO, smtp_up,
          flagged_contents, flag_instances, ret, calls>>

\* ---------------------------------------------------------------- helpers

\* Python truthiness of an integer-or-None value: `if limit`, `if status`
TruthyInt(x) == x # None /\ x # 0

\* Python truthiness of a comment: None and '' are false
TruthyComment(c) == c # NoComment /\ c # ""

SeqToSet(s) == {s[i] : i \in 1..Len(s)}

\* the row of table `rows` with primary key `id`
RowById(rows, id) == CHOOSE r \in rows : r.id = id

\* the next autoincrement primary key of a table (rows are never deleted)
NextId(rows) == Cardinality(rows) + 1

\* a FlaggedContent row as the ORM builds it before its first save
\* (status defaults to 1, count to 0, moderator and creator to null)
NewFlaggedContent(id, content_object, defaults) ==
    [id |-> id, content_object |-> content_object,
     creator |-> defaults.creator, status |-> defaults.status,
     moderator |-> NoUser, count |-> 0]

\* ------------------------------------------------- FlaggedContentManager

\* flag.utils.get_content_type_tuple applied to a content object
\* <<app_label.model, object id>>: its "app_label.model", or an exception for
\* anything else (a tuple of another length stands for a malformed type tag)
get_content_type_tuple(content_type) ==
    IF Len(content_type) = 2
    THEN [raised |-> FALSE, label |-> content_type[1]]
    ELSE [raised |-> TRUE, label |-> ""]

\* model_can_be_flagged reading the type tag before it looks at MODELS
model_can_be_flagged_tag_first(content_type) ==
    LET t == get_content_type_tuple(content_type)
    IN  IF t.raised
        THEN FALSE
        ELSE MODELS = <<>> \/ t.label \in SeqToSet(MODELS)

model_can_be_flagged(content_type) ==
    IF MODELS = <<>>
    THEN TRUE
    ELSE LET t == get_content_type_tuple(content_type)
         IN  IF t.raised THEN FALSE ELSE t.label \in SeqToSet(MODELS)

assert_model_can_be_flagged(content_type) ==
    IF ~model_can_be_flagged(content_type)
    THEN ModelCannotBeFlaggedException
    ELSE NoExc

\* FlaggedContent.save without the model check
FlaggedContent_save_unchecked(fcs, self) ==
    [exc |-> NoExc, fcs |-> {r \in fcs : r.id # self.id} \cup {self}]

\* FlaggedContent.save: the model check, then the row is written with every
\* field of the in-memory object (INSERT without a row of that id, else UPDATE)
FlaggedContent_save(fcs, self) ==
    LET exc == assert_model_can_be_flagged(self.content_object)
    IN  IF exc # NoExc
        THEN [exc |-> exc, fcs |-> fcs]
        ELSE [exc |-> NoExc,
              fcs |-> {r \in fcs : r.id # self.id} \cup {self}]

\* the `defaults` dict of get_or_create_for_object
Defaults(content_creator, status) ==
    [creator |-> IF content_creator # NoUser THEN content_creator ELSE NoUser,
     status |-> IF status # None THEN status ELSE DefaultStatus]

\* the rows get_or_create's lookup finds for a content object
Lookup(fcs, content_object) == {r \in fcs : r.content_object = content_object}

\* get_or_create_for_object applying the defaults to a row it finds
update_or_create_for_object(fcs, content_object, content_creator, status) ==
    LET found == Lookup(fcs, content_object)
        d == Defaults(content_creator, status)
        new == NewFlaggedContent(NextId(fcs), content_object, d)
        row == IF found # {}
               THEN [(CHOOSE r \in found : TRUE) EXCEPT
                     !.creator = d.creator, !.status = d.status]
               ELSE new
        saved == FlaggedContent_save(fcs, row)
    IN  [exc |-> saved.exc, fcs |-> saved.fcs, flagged_content |-> row,
         created |-> found = {} /\ saved.exc = NoExc]

get_or_create_for_object(fcs, content_object, content_creator, status) ==
    LET found == Lookup(fcs, content_object)
    IN  IF found # {}
        THEN [exc |-> NoExc, fcs |-> fcs,
              flagged_content |-> CHOOSE r \in found : TRUE, created |-> FALSE]
        ELSE LET new == NewFlaggedContent(NextId(fcs), content_object,
                                          Defaults(content_creator, status))
                 saved == FlaggedContent_save(fcs, new)
             IN  [exc |-> saved.exc, fcs |-> saved.fcs,
                  flagged_content |-> new, created |-> saved.exc = NoExc]

\* -------------------------------------------------------- FlaggedContent

\* count_flags_by_user without the filter on the user
count_flags_by_any_user(fis, self, user) ==
    Cardinality({f \in fis : f.flagged_content = self.id /\ f.status = 1})

count_flags_by_user(fis, self, user) ==
    Cardinality({f \in fis : f.flagged_content = self.id
                             /\ f.user = user /\ f.status = 1})

\* can_be_flagged taking only None for "no limit"
can_be_flagged_unless_none(self) ==
    LET limit == LIMIT_FOR_OBJECT
    IN  IF limit = None THEN TRUE ELSE self.count < limit

\* can_be_flagged comparing with <= instead of <
can_be_flagged_one_more(self) ==
    LET limit == LIMIT_FOR_OBJECT
    IN  IF ~TruthyInt(limit) THEN TRUE ELSE self.count <= limit

can_be_flagged(self) ==
    LET limit == LIMIT_FOR_OBJECT
    IN  IF ~TruthyInt(limit) THEN TRUE ELSE self.count < limit

assert_can_be_flagged(self) ==
    IF ~can_be_flagged(self) THEN ContentFlaggedEnoughException ELSE NoExc

\* assert_can_be_flagged_by_user checking the per-user limit before the
\* per-object limit
assert_user_limit_first(fis, self, user) ==
    LET limit == LIMIT_SAME_OBJECT_FOR_USER
    IN  IF TruthyInt(limit) /\ count_flags_by_user(fis, self, user) >= limit
        THEN ContentAlreadyFlaggedByUserException
        ELSE assert_can_be_flagged(self)

assert_can_be_flagged_by_user(fis, self, user) ==
    LET e == assert_can_be_flagged(self)
    IN  IF e # NoExc
        THEN e
        ELSE LET limit == LIMIT_SAME_OBJECT_FOR_USER
             IN  IF ~TruthyInt(limit)
                 THEN NoExc
                 ELSE IF count_flags_by_user(fis, self, user) >= limit
                      THEN ContentAlreadyFlaggedByUserException
                      ELSE NoExc

\* the loop over the rules comparing with > instead of >=
RECURSIVE RulesLoopStrict(_, _, _, _)
RulesLoopStrict(rules, i, count, current) ==
    IF i > Len(rules)
    THEN current
    ELSE IF count > rules[i][1]
         THEN RulesLoopStrict(rules, i + 1, count, rules[i])
         ELSE current

\* the loop over the rules without its break: a rule whose min_count is above
\* the count is skipped and the walk goes on
RECURSIVE RulesLoopNoBreak(_, _, _, _)
RulesLoopNoBreak(rules, i, count, current) ==
    IF i > Len(rules)
    THEN current
    ELSE IF count >= rules[i][1]
         THEN RulesLoopNoBreak(rules, i + 1, count, rules[i])
         ELSE RulesLoopNoBreak(rules, i + 1, count, current)

\* the loop over SEND_MAILS_RULES of flag_added, from rule i on:
\* <<current_min_count, current_step>> when the loop ends or breaks
RECURSIVE RulesLoop(_, _, _, _)
RulesLoop(rules, i, count, current) ==
    IF i > Len(rules)
    THEN current
    ELSE IF count >= rules[i][1]
         THEN RulesLoop(rules, i + 1, count, rules[i])
         ELSE current

\* really_send_mails of flag_added for a limit, the rules and self.count
really_send_mails(limit, rules, count) ==
    IF TruthyInt(limit) /\ count >= limit
    THEN TRUE
    ELSE LET current == RulesLoop(rules, 1, count, <<0, 0>>)
             current_min_count == current[1]
             current_step == current[2]
         IN  current_step # 0
             /\ (count - current_min_count) % current_step = 0

\* the relative update of flag_added: count = F('count') + 1 and save(),
\* which writes the other fields from the in-memory object
IncrementCount(fcs, self) ==
    LET row == RowById(fcs, self.id)
    IN  FlaggedContent_save(fcs, [self EXCEPT !.count = row.count + 1])

\* flag_added incrementing the count whatever the status
CountsAlways(self) == TRUE

\* flag_added, line 258: the count follows the aggregate's own status
CountsAsFlag(self) == self.status = 1

\* flag_added, lines 266-299: the signal and the mails for the in-memory
\* aggregate `self`
Notify(self, send_signal, send_mails) ==
    [signal |-> send_signal,
     signal_count |-> IF send_signal THEN self.count ELSE 0,
     mail |-> send_mails /\ SEND_MAILS
              /\ really_send_mails(LIMIT_FOR_OBJECT, SEND_MAILS_RULES,
                                   self.count)]

\* flag_added without the reload: the count stays the one read before
KeepCountInMemory(fcs, self) == self

\* flag_added, lines 263-264: the count of the row is read again
Reload(fcs, self) == [self EXCEPT !.count = RowById(fcs, self.id).count]

\* the error of the mail transport
SMTPException == "SMTPException"

\* FlagInstance.send_mails calling send_mail with fail_silently=False
FlagInstance_send_mails_loud(flagged_content) ==
    IF ~(SEND_MAILS /\ SEND_MAILS_TO # <<>>)
    THEN [exc |-> NoExc, delivered |-> FALSE]
    ELSE [exc |-> IF smtp_up THEN NoExc ELSE SMTPException,
          delivered |-> smtp_up]

\* FlagInstance.send_mails for a flag instance of `flagged_content`: nothing
\* without SEND_MAILS and recipients; send_mail(fail_silently=True) raises
\* nothing when the transport refuses the message
FlagInstance_send_mails(flagged_content) ==
    IF ~(SEND_MAILS /\ SEND_MAILS_TO # <<>>)
    THEN [exc |-> NoExc, delivered |-> FALSE]
    ELSE [exc |-> NoExc, delivered |-> smtp_up]

\* flag_added: [exc, fcs, self (after the reload), signal, signal_count,
\* mail (send_mails was called), delivered (the transport took the message)]
flag_added(fcs, self, send_signal, send_mails) ==
    LET inc == IF CountsAsFlag(self)
               THEN IncrementCount(fcs, self)
               ELSE [exc |-> NoExc, fcs |-> fcs]
        reloaded == IF CountsAsFlag(self) THEN Reload(inc.fcs, self) ELSE self
        n == Notify(reloaded, send_signal, send_mails)
        m == IF n.mail
             THEN FlagInstance_send_mails(reloaded)
             ELSE [exc |-> NoExc, delivered |-> FALSE]
    IN  IF inc.exc # NoExc
        THEN [exc |-> inc.exc, fcs |-> fcs, self |-> self,
              signal |-> FALSE, signal_count |-> 0, mail |-> FALSE,
              delivered |-> FALSE]
        ELSE [exc |-> m.exc, fcs |-> inc.fcs, self |-> reloaded,
              signal |-> n.signal, signal_count |-> n.signal_count,
              mail |-> n.mail, delivered |-> m.delivered]

\* ---------------------------------------------------------- FlagInstance

\* the comment check without its second test: a comment is never refused
CheckCommentRequiredOnly(comment) ==
    IF ALLOW_COMMENTS /\ ~TruthyComment(comment)
    THEN FlagCommentException
    ELSE NoExc

\* the comment check of FlagInstance.save
CheckComment(comment) ==
    LET allow_comments == ALLOW_COMMENTS
    IN  IF allow_comments /\ ~TruthyComment(comment)
        THEN FlagCommentException
        ELSE IF ~allow_comments /\ TruthyComment(comment)
             THEN FlagCommentException
             ELSE NoExc

\* the checks of FlagInstance.save with the limits checked for every status
FlagInstance_validate_any_status(fis, flagged_content, self) ==
    LET is_new == self.id = 0
        e == IF is_new
             THEN assert_can_be_flagged_by_user(fis, flagged_content, self.user)
             ELSE NoExc
    IN  IF e # NoExc
        THEN e
        ELSE IF is_new THEN CheckComment(self.comment) ELSE NoExc

\* the checks FlagInstance.save makes before the row is written:
\* `flagged_content` is the in-memory parent, `self` the flag instance
FlagInstance_validate(fis, flagged_content, self) ==
    LET is_new == self.id = 0
        e == IF is_new /\ self.status = 1
             THEN assert_can_be_flagged_by_user(fis, flagged_content, self.user)
             ELSE NoExc
    IN  IF e # NoExc
        THEN e
        ELSE IF is_new THEN CheckComment(self.comment) ELSE NoExc

\* super(FlagInstance, self).save(): INSERT with a fresh id, or UPDATE
FlagInstance_write(fis, self) ==
    IF self.id = 0
    THEN LET row == [self EXCEPT !.id = NextId(fis)]
         IN  [fis |-> fis \cup {row}, self |-> row]
    ELSE [fis |-> {f \in fis : f.id # self.id} \cup {self}, self |-> self]

\* FlagInstance.save taking every instance for a new one
FlagInstance_save_as_new(fcs, fis, flagged_content, self, send_signal, send_mails) ==
    LET e == FlagInstance_validate(fis, flagged_content, [self EXCEPT !.id = 0])
        w == FlagInstance_write(fis, self)
        a == flag_added(fcs, flagged_content, send_signal, send_mails)
    IN  IF e # NoExc
        THEN [exc |-> e, fcs |-> fcs, fis |-> fis, self |-> self,
              signal |-> FALSE, signal_count |-> 0, mail |-> FALSE,
              delivered |-> FALSE]
        ELSE [exc |-> a.exc, fcs |-> a.fcs, fis |-> w.fis, self |-> w.self,
              signal |-> a.signal, signal_count |-> a.signal_count,
              mail |-> a.mail, delivered |-> a.delivered]

\* FlagInstance.save(send_signal, send_mails)
FlagInstance_save(fcs, fis, flagged_content, self, send_signal, send_mails) ==
    LET is_new == self.id = 0
        e == FlagInstance_validate(fis, flagged_content, self)
        w == FlagInstance_write(fis, self)
        a == IF is_new
             THEN flag_added(fcs, flagged_content, send_signal, send_mails)
             ELSE [exc |-> NoExc, fcs |-> fcs, self |-> flagged_content,
                   signal |-> FALSE, signal_count |-> 0, mail |-> FALSE,
                   delivered |-> FALSE]
    IN  IF e # NoExc
        THEN [exc |-> e, fcs |-> fcs, fis |-> fis, self |-> self,
              signal |-> FALSE, signal_count |-> 0, mail |-> FALSE,
              delivered |-> FALSE]
        ELSE [exc |-> a.exc, fcs |-> a.fcs, fis |-> w.fis, self |-> w.self,
              signal |-> a.signal, signal_count |-> a.signal_count,
              mail |-> a.mail, delivered |-> a.delivered]

\* --------------------------------------------------- FlagInstanceManager

\* add recording the moderator for every status given
SetStatusAndModerator(flagged_content, user, status) ==
    IF TruthyInt(status)
    THEN [flagged_content EXCEPT !.status = status, !.moderator = user]
    ELSE flagged_content

\* add, lines 332-337: the new status and the moderator on the in-memory
\* aggregate
SetStatus(flagged_content, user, status) ==
    IF TruthyInt(status)
    THEN IF status # DefaultStatus
         THEN [flagged_content EXCEPT !.status = status, !.moderator = user]
         ELSE [flagged_content EXCEPT !.status = status]
    ELSE flagged_content

\* add, lines 341-351: the flag instance before its save
NewFlagInstance(flagged_content, user, comment, status) ==
    [id |-> 0, flagged_content |-> flagged_content.id, user |-> user,
     comment |-> comment,
     status |-> IF TruthyInt(status) THEN status ELSE flagged_content.status]

\* the outcome of a call that raised `exc` after leaving the tables as given
Raised(exc, fcs, fis) ==
    [exc |-> exc, fcs |-> fcs, fis |-> fis, flag |-> 0, flag_status |-> None,
     signal |-> FALSE, signal_count |-> 0, mail |-> FALSE, delivered |-> FALSE]

\* FlagInstanceManager.add on the tables fcs, fis
add(fcs, fis, user, content_object, content_creator, comment, status, send_signal, send_mails) ==
    LET g == get_or_create_for_object(fcs, content_object, content_creator,
                                      status)
        flagged_content == SetStatus(g.flagged_content, user, status)
        s == FlaggedContent_save(g.fcs, flagged_content)
        flag_instance == NewFlagInstance(flagged_content, user, comment, status)
        f == FlagInstance_save(s.fcs, fis, flagged_content, flag_instance,
                               send_signal, send_mails)
    IN  IF g.exc # NoExc
        THEN Raised(g.exc, g.fcs, fis)
        ELSE IF s.exc # NoExc
             THEN Raised(s.exc, s.fcs, fis)
             ELSE IF f.exc # NoExc
                  THEN Raised(f.exc, f.fcs, f.fis)
                  ELSE [exc |-> NoExc, fcs |-> f.fcs, fis |-> f.fis,
                        flag |-> f.self.id, flag_status |-> f.self.status,
                        signal |-> f.signal, signal_count |-> f.signal_count,
                        mail |-> f.mail, delivered |-> f.delivered]

\* ------------------------------------------------------------ the system

\* the last call: its arguments, what it returned or raised, what it published
\* (seq alternates, so that no call is a stuttering step)
NoCall ==
    [op |-> "none", seq |-> 0, user |-> NoUser, content_object |-> <<>>,
     content_creator |-> NoUser, comment |-> NoComment, status |-> None,
     send_signal |-> FALSE, send_mails |-> FALSE,
     exc |-> NoExc, value |-> FALSE, created |-> FALSE, flagged_content |-> 0,
     flag |-> 0, flag_status |-> None, signal |-> FALSE, signal_count |-> 0,
     mail |-> FALSE, delivered |-> FALSE]

\* the processes that call add concurrently, and the user of each
Procs == {"p1", "p2"}
UserOf(p) == IF p = "p1" THEN "u1" ELSE "u2"

\* a row that stands for no row: a process without an aggregate in memory
NoRow == NewFlaggedContent(0, <<>>, [creator |-> NoUser, status |-> None])

\* a process between two calls, before its first call
IdleCall ==
    [pc |-> "idle", content_object |-> <<>>, status |-> None,
     flagged_content |-> NoRow, integrity_error |-> FALSE,
     flag |-> 0, flag_status |-> None,
     exc |-> NoExc, signal |-> FALSE, signal_count |-> 0, mail |-> FALSE]

\* recipients are configured and the mail transport works
MailsGoOut ==
    /\ SEND_MAILS_TO = <<"admin">>
    /\ smtp_up = TRUE

\* empty tables, no call made
InitTables ==
    /\ flagged_contents = {}
    /\ flag_instances = {}
    /\ ret = NoCall
    /\ calls = [p \in Procs |-> IdleCall]

InitSettings ==
    /\ MODELS \in ModelsChoices
    /\ LIMIT_FOR_OBJECT \in LimitForObjectChoices
    /\ LIMIT_SAME_OBJECT_FOR_USER \in LimitSameObjectForUserChoices
    /\ ALLOW_COMMENTS \in BOOLEAN
    /\ SEND_MAILS = FALSE
    /\ SEND_MAILS_RULES = <<>>
    /\ MailsGoOut

Init ==
    /\ InitSettings
    /\ InitTables

\* a call of FlagInstance.objects.add, run to its end
Add(user, content_object, content_creator, comment, status, send_signal, send_mails) ==
    /\ \E r \in {add(flagged_contents, flag_instances, user, content_object,
                    content_creator, comment, status, send_signal, send_mails)} :
           /\ flagged_contents' = r.fcs
           /\ flag_instances' = r.fis
           /\ ret' = [NoCall EXCEPT
                      !.op = "add", !.seq = 1 - ret.seq, !.user = user,
                      !.content_object = content_object,
                      !.content_creator = content_creator,
                      !.comment = comment, !.status = status,
                      !.send_signal = send_signal, !.send_mails = send_mails,
                      !.exc = r.exc, !.flag = r.flag,
                      !.flag_status = r.flag_status, !.signal = r.signal,
                      !.signal_count = r.signal_count, !.mail = r.mail,
                      !.delivered = r.delivered]
    /\ UNCHANGED <<settings, calls>>

\* a call of FlaggedContent.objects.get_or_create_for_object
GetOrCreateForObject(content_object, content_creator, status) ==
    /\ \E g \in {get_or_create_for_object(flagged_contents, content_object,
                                            content_creator, status)} :
           /\ flagged_contents' = g.fcs
           /\ ret' = [NoCall EXCEPT
                      !.op = "get_or_create_for_object",
                      !.seq = 1 - ret.seq,
                      !.content_object = content_object,
                      !.content_creator = content_creator, !.status = status,
                      !.exc = g.exc, !.created = g.created,
                      !.flagged_content =
                          IF g.exc = NoExc THEN g.flagged_content.id ELSE 0]
    /\ UNCHANGED <<settings, flag_instances, calls>>

\* calls of add, one at a time, on the content objects of Objects, while at
\* most MaxFlags flag instances are persisted
AddCalls(users, comments, statuses, sends) ==
    \E user \in users, content_object \in Objects, comment \in comments,
       status \in statuses, send_signal \in sends, send_mails \in sends :
        /\ Add(user, content_object, NoUser, comment, status,
               send_signal, send_mails)
        /\ Cardinality(flag_instances') <= MaxFlags

\* two users flag one content object, without notifications
Next == AddCalls(Users, Comments, StatusArgs, {FALSE})

Spec == Init /\ [][Next]_vars

\* the comment arguments of SpecComments: None, the empty string, a text
CommentArgs == {NoComment, "", "spam"}

\* one user flags one content object, with every kind of comment
NextComments == AddCalls({"u1"}, CommentArgs, StatusArgs, {FALSE})

SpecComments == Init /\ [][NextComments]_vars

\* ---- notifications: one user, comments not allowed, signals and mails asked

InitNotify ==
    /\ MODELS = <<"app.a">>
    /\ LIMIT_FOR_OBJECT \in LimitForObjectChoices
    /\ LIMIT_SAME_OBJECT_FOR_USER = None
    /\ ALLOW_COMMENTS = FALSE
    /\ SEND_MAILS \in BOOLEAN
    /\ SEND_MAILS_RULES \in RulesChoices
    /\ MailsGoOut
    /\ InitTables

NextNotify == AddCalls({"u1"}, {NoComment}, StatusArgs, BOOLEAN)

SpecNotify == InitNotify /\ [][NextNotify]_vars

\* ---- mails that are not delivered: no recipients, or a transport that
\* refuses the message

\* the values of SEND_MAILS_TO: no recipient, one recipient
RecipientsChoices == {<<>>, <<"admin">>}

InitMailFailure ==
    /\ MODELS = <<>>
    /\ LIMIT_FOR_OBJECT \in LimitForObjectChoices
    /\ LIMIT_SAME_OBJECT_FOR_USER = None
    /\ ALLOW_COMMENTS = FALSE
    /\ SEND_MAILS \in BOOLEAN
    /\ SEND_MAILS_RULES = <<<<1, 1>>>>
    /\ SEND_MAILS_TO \in RecipientsChoices
    /\ smtp_up \in BOOLEAN
    /\ InitTables

NextMailFailure == AddCalls({"u1"}, {NoComment}, StatusArgs, BOOLEAN)

SpecMailFailure == InitMailFailure /\ [][NextMailFailure]_vars

\* ---- the mail rule: one user flags one object MaxMailFlags times

\* the rules of the mail example of the documentation, others, and none
MailRulesChoices ==
    {<<<<5, 1>>, <<10, 5>>>>, <<<<2, 3>>>>, <<<<1, 2>>, <<4, 3>>, <<9, 4>>>>, <<>>}
MailLimitChoices == {None, 12}

InitMail ==
    /\ MODELS = <<>>
    /\ LIMIT_FOR_OBJECT \in MailLimitChoices
    /\ LIMIT_SAME_OBJECT_FOR_USER = None
    /\ ALLOW_COMMENTS = FALSE
    /\ SEND_MAILS \in BOOLEAN
    /\ SEND_MAILS_RULES \in MailRulesChoices
    /\ MailsGoOut
    /\ InitTables

NextMail ==
    \E content_object \in Objects, send_mails \in BOOLEAN :
        /\ Add("u1", content_object, NoUser, NoComment, None, FALSE, send_mails)
        /\ Cardinality(flag_instances') <= MaxMailFlags

MailSpec == InitMail /\ [][NextMail]_vars

\* ---- rule lists in any order: one user flags one object MaxRuleFlags times

\* lists of (min_count, step): ascending, descending, up and down, twice the
\* same min_count, and a step of 0
RuleListsChoices ==
    {<<<<2, 1>>, <<4, 2>>>>,
     <<<<5, 1>>, <<2, 3>>>>,
     <<<<3, 2>>, <<1, 1>>, <<6, 3>>>>,
     <<<<2, 2>>, <<2, 1>>>>,
     <<<<2, 0>>, <<4, 2>>>>}
RuleLimitChoices == {None, 6}

InitRules ==
    /\ MODELS = <<>>
    /\ LIMIT_FOR_OBJECT \in RuleLimitChoices
    /\ LIMIT_SAME_OBJECT_FOR_USER = None
    /\ ALLOW_COMMENTS = FALSE
    /\ SEND_MAILS \in BOOLEAN
    /\ SEND_MAILS_RULES \in RuleListsChoices
    /\ MailsGoOut
    /\ InitTables

NextRules ==
    \E content_object \in Objects, send_mails \in BOOLEAN :
        /\ Add("u1", content_object, NoUser, NoComment, None, FALSE, send_mails)
        /\ Cardinality(flag_instances') <= MaxRuleFlags

SpecRules == InitRules /\ [][NextRules]_vars

\* ---- several content objects: get_or_create_for_object and add

\* two objects of one model
ObjectArgs == {<<"app.a", 1>>, <<"app.a", 2>>}

InitObjects ==
    /\ MODELS \in ModelsChoices
    /\ LIMIT_FOR_OBJECT = None
    /\ LIMIT_SAME_OBJECT_FOR_USER = None
    /\ ALLOW_COMMENTS = FALSE
    /\ SEND_MAILS = FALSE
    /\ SEND_MAILS_RULES = <<>>
    /\ MailsGoOut
    /\ InitTables

NextObjects ==
    \/ \E content_object \in ObjectArgs, content_creator \in CreatorArgs,
          status \in StatusArgs :
           GetOrCreateForObject(content_object, content_creator, status)
    \/ \E content_object \in ObjectArgs, status \in StatusArgs :
           /\ Add("u2", content_object, "u2", NoComment, status,
                  FALSE, FALSE)
           /\ Cardinality(flag_instances') <= MaxFlags

SpecObjects == InitObjects /\ [][NextObjects]_vars

\* ---- saves of persisted records, under both limits and a MODELS setting
\* that changes

\* the values of MODELS of SpecSaves: not set, the model of the objects,
\* another model
SavesModelsChoices == {<<>>, <<"app.a">>, <<"app.b">>}

InitSaves ==
    /\ MODELS \in SavesModelsChoices
    /\ LIMIT_FOR_OBJECT = 2
    /\ LIMIT_SAME_OBJECT_FOR_USER = 1
    /\ ALLOW_COMMENTS \in BOOLEAN
    /\ SEND_MAILS = TRUE
    /\ SEND_MAILS_RULES = <<<<1, 1>>>>
    /\ MailsGoOut
    /\ InitTables

\* the project is run again with another MODELS setting, on the same database
Reconfigure(models) ==
    /\ MODELS # models
    /\ MODELS' = models
    /\ ret' = [NoCall EXCEPT !.op = "configure", !.seq = 1 - ret.seq]
    /\ UNCHANGED <<LIMIT_FOR_OBJECT, LIMIT_SAME_OBJECT_FOR_USER, ALLOW_COMMENTS,
                   SEND_MAILS, SEND_MAILS_RULES, SEND_MAILS_TO, smtp_up,
                   flagged_contents, flag_instances, calls>>

\* a persisted FlagInstance is loaded, given a comment and a status, and saved
ResaveFlagInstance(id, comment, status, send_signal, send_mails) ==
    /\ \E loaded \in {f \in flag_instances : f.id = id} :
       \E flagged_content \in
              {r \in flagged_contents : r.id = loaded.flagged_content} :
       \E r \in {FlagInstance_save(
                     flagged_contents, flag_instances, flagged_content,
                     [loaded EXCEPT !.comment = comment, !.status = status],
                     send_signal, send_mails)} :
           /\ flagged_contents' = r.fcs
           /\ flag_instances' = r.fis
           /\ ret' = [NoCall EXCEPT
                      !.op = "FlagInstance.save", !.seq = 1 - ret.seq,
                      !.user = loaded.user,
                      !.content_object = flagged_content.content_object,
                      !.comment = comment, !.status = status,
                      !.send_signal = send_signal, !.send_mails = send_mails,
                      !.exc = r.exc, !.flagged_content = flagged_content.id,
                      !.flag = id, !.flag_status = r.self.status,
                      !.signal = r.signal, !.signal_count = r.signal_count,
                      !.mail = r.mail]
    /\ UNCHANGED <<settings, calls>>

\* a persisted FlaggedContent is loaded, given a status, and saved
ResaveFlaggedContent(id, status) ==
    /\ \E loaded \in {r \in flagged_contents : r.id = id} :
       \E r \in {FlaggedContent_save(flagged_contents,
                                      [loaded EXCEPT !.status = status])} :
           /\ flagged_contents' = r.fcs
           /\ ret' = [NoCall EXCEPT
                      !.op = "FlaggedContent.save", !.seq = 1 - ret.seq,
                      !.content_object = loaded.content_object,
                      !.status = status, !.exc = r.exc,
                      !.flagged_content = id]
    /\ UNCHANGED <<settings, flag_instances, calls>>

NextSaves ==
    \/ AddCalls({"u1"}, Comments, {None, 2}, {TRUE})
    \/ \E models \in SavesModelsChoices : Reconfigure(models)
    \/ \E id \in 1..MaxFlags, comment \in Comments, status \in Statuses :
           ResaveFlagInstance(id, comment, status, TRUE, TRUE)
    \/ \E id \in 1..MaxFlags, status \in Statuses :
           ResaveFlaggedContent(id, status)

SpecSaves == InitSaves /\ [][NextSaves]_vars

\* ---- the model check alone, on every kind of type tag

\* the values of MODELS of SpecModels
TagModelsChoices ==
    {<<>>, <<"app.a">>, <<"app.b">>, <<"app.a", "app.b">>, <<"app.c">>,
     <<"app.b", "app.c">>}
\* type tags: objects of three models, and two malformed ones
TypeTags ==
    {<<"app.a", 1>>, <<"app.a", 2>>, <<"app.b", 1>>, <<"app.c", 1>>,
     <<"app">>, <<>>}

InitModels ==
    /\ MODELS \in TagModelsChoices
    /\ LIMIT_FOR_OBJECT = None
    /\ LIMIT_SAME_OBJECT_FOR_USER = None
    /\ ALLOW_COMMENTS = FALSE
    /\ SEND_MAILS = FALSE
    /\ SEND_MAILS_RULES = <<>>
    /\ MailsGoOut
    /\ InitTables

\* a call of FlaggedContent.objects.model_can_be_flagged
ModelCanBeFlagged(content_type) ==
    /\ ret' = [NoCall EXCEPT
               !.op = "model_can_be_flagged", !.seq = 1 - ret.seq,
               !.content_object = content_type,
               !.value = model_can_be_flagged(content_type)]
    /\ UNCHANGED <<settings, flagged_contents, flag_instances, calls>>

\* a call of FlaggedContent.objects.assert_model_can_be_flagged
AssertModelCanBeFlagged(content_type) ==
    /\ ret' = [NoCall EXCEPT
               !.op = "assert_model_can_be_flagged", !.seq = 1 - ret.seq,
               !.content_object = content_type,
               !.exc = assert_model_can_be_flagged(content_type)]
    /\ UNCHANGED <<settings, flagged_contents, flag_instances, calls>>

NextModels ==
    \E content_type \in TypeTags :
        \/ ModelCanBeFlagged(content_type)
        \/ AssertModelCanBeFlagged(content_type)

SpecModels == InitModels /\ [][NextModels]_vars

\* ---- can_be_flagged on the FlaggedContent rows, under every kind of limit

\* the values of LIMIT_FOR_OBJECT of SpecLimits: None, 0, limits that are
\* reached
ObjectLimitChoices == {None, 0, 1, 2}

InitLimits ==
    /\ MODELS = <<>>
    /\ LIMIT_FOR_OBJECT \in ObjectLimitChoices
    /\ LIMIT_SAME_OBJECT_FOR_USER = None
    /\ ALLOW_COMMENTS = FALSE
    /\ SEND_MAILS = FALSE
    /\ SEND_MAILS_RULES = <<>>
    /\ MailsGoOut
    /\ InitTables

\* a call of can_be_flagged on a persisted FlaggedContent
CanBeFlagged(id) ==
    /\ \E r \in flagged_contents : r.id = id
    /\ LET self == RowById(flagged_contents, id)
       IN  ret' = [NoCall EXCEPT
                   !.op = "can_be_flagged", !.seq = 1 - ret.seq,
                   !.content_object = self.content_object,
                   !.flagged_content = id,
                   !.value = can_be_flagged(self)]
    /\ UNCHANGED <<settings, flagged_contents, flag_instances, calls>>

NextLimits ==
    \/ AddCalls(Users, {NoComment}, StatusArgs, {FALSE})
    \/ \E id \in 1..MaxFlags : CanBeFlagged(id)

SpecLimits == InitLimits /\ [][NextLimits]_vars

\* ---- statuses: two users flag and moderate one object under limits of 1

\* the values of the two limits of SpecStatus
StatusLimitChoices == {None, 1}

InitStatus ==
    /\ MODELS \in ModelsChoices
    /\ LIMIT_FOR_OBJECT \in StatusLimitChoices
    /\ LIMIT_SAME_OBJECT_FOR_USER \in StatusLimitChoices
    /\ ALLOW_COMMENTS = FALSE
    /\ SEND_MAILS = FALSE
    /\ SEND_MAILS_RULES = <<>>
    /\ MailsGoOut
    /\ InitTables

NextStatus ==
    \E user \in Users, content_object \in Objects,
       content_creator \in CreatorArgs, status \in StatusArgs :
        /\ Add(user, content_object, content_creator, NoComment, status,
               FALSE, FALSE)
        /\ Cardinality(flag_instances') <= MaxStatusFlags

SpecStatus == InitStatus /\ [][NextStatus]_vars

\* ---- concurrent calls of add: every database statement is a step

\* the limits SpecConcurrent is checked under
ConcurrentLimitChoices == {None, 1}
\* the status argument of the concurrent calls
ConcurrentStatusArgs == {None, 1}
\* the content objects of the concurrent calls: two objects of one model
ConcurrentObjects == {<<"app.a", 1>>, <<"app.a", 2>>}

InitConcurrent ==
    /\ MODELS = <<>>
    /\ LIMIT_FOR_OBJECT \in ConcurrentLimitChoices
    /\ LIMIT_SAME_OBJECT_FOR_USER = None
    /\ ALLOW_COMMENTS = FALSE
    /\ SEND_MAILS = TRUE
    /\ SEND_MAILS_RULES = <<<<1, 1>>>>
    /\ MailsGoOut
    /\ InitTables

\* the calls that have begun and not ended
Busy == {p \in Procs : calls[p].pc # "idle"}

\* the flag instance process p builds (add, lines 341-351)
FlagOf(p) ==
    NewFlagInstance(calls[p].flagged_content, UserOf(p), NoComment,
                    calls[p].status)

\* the call of p ends: it returns, or `exc` propagates to the caller
Ended(p, exc, flag, n) ==
    [IdleCall EXCEPT
     !.content_object = calls[p].content_object, !.status = calls[p].status,
     !.integrity_error = calls[p].integrity_error,
     !.exc = exc, !.flag = flag.id, !.flag_status = flag.status,
     !.signal = n.signal, !.signal_count = n.signal_count, !.mail = n.mail]

NoFlag == [id |-> 0, status |-> None]
NoNotify == [signal |-> FALSE, signal_count |-> 0, mail |-> FALSE]

\* the INSERT of a FlaggedContent row without the unique_together constraint
InsertUnconstrained(fcs, new) ==
    [integrity_error |-> FALSE, fcs |-> fcs \cup {new}]

\* the INSERT of a FlaggedContent row under unique_together (lines 119-121):
\* refused with an IntegrityError when the object already has a row
InsertFlaggedContent(fcs, new) ==
    IF Lookup(fcs, new.content_object) # {}
    THEN [integrity_error |-> TRUE, fcs |-> fcs]
    ELSE [integrity_error |-> FALSE, fcs |-> fcs \cup {new}]

\* add begins: get_or_create looks the aggregate up
Begin(p, content_object, status) ==
    /\ calls[p].pc = "idle"
    /\ Cardinality(flag_instances) + Cardinality(Busy) < MaxFlags
    /\ LET found == Lookup(flagged_contents, content_object)
       IN  calls' = [calls EXCEPT ![p] =
                [IdleCall EXCEPT
                 !.pc = IF found = {} THEN "create" ELSE "save",
                 !.content_object = content_object, !.status = status,
                 !.flagged_content = IF found = {} THEN NoRow
                                     ELSE CHOOSE r \in found : TRUE]]
    /\ UNCHANGED <<settings, flagged_contents, flag_instances, ret>>

\* get_or_create found no row: it saves a new one, and reads the row of
\* another call when the insert is refused
Create(p) ==
    /\ calls[p].pc = "create"
    /\ LET obj == calls[p].content_object
           new == NewFlaggedContent(NextId(flagged_contents), obj,
                                    Defaults(NoUser, calls[p].status))
           exc == assert_model_can_be_flagged(obj)
           ins == InsertFlaggedContent(flagged_contents, new)
       IN  IF exc # NoExc
           THEN /\ calls' = [calls EXCEPT ![p] = Ended(p, exc, NoFlag, NoNotify)]
                /\ UNCHANGED flagged_contents
           ELSE /\ flagged_contents' = ins.fcs
                /\ calls' = [calls EXCEPT
                             ![p].pc = "save",
                             ![p].integrity_error = ins.integrity_error,
                             ![p].flagged_content =
                                 IF ins.integrity_error
                                 THEN CHOOSE r \in Lookup(flagged_contents, obj) : TRUE
                                 ELSE new]
    /\ UNCHANGED <<settings, flag_instances, ret>>

\* add, lines 332-339: status, moderator, and flagged_content.save()
SaveAggregate(p) ==
    /\ calls[p].pc = "save"
    /\ LET fc == SetStatus(calls[p].flagged_content, UserOf(p), calls[p].status)
           saved == FlaggedContent_save(flagged_contents, fc)
       IN  IF saved.exc # NoExc
           THEN /\ calls' = [calls EXCEPT
                             ![p] = Ended(p, saved.exc, NoFlag, NoNotify)]
                /\ UNCHANGED flagged_contents
           ELSE /\ flagged_contents' = saved.fcs
                /\ calls' = [calls EXCEPT ![p].pc = "validate",
                                          ![p].flagged_content = fc]
    /\ UNCHANGED <<settings, flag_instances, ret>>

\* FlagInstance.save, lines 394-409: the checks
Validate(p) ==
    /\ calls[p].pc = "validate"
    /\ LET e == FlagInstance_validate(flag_instances,
                                      calls[p].flagged_content, FlagOf(p))
       IN  calls' = [calls EXCEPT ![p] =
                IF e # NoExc
                THEN Ended(p, e, NoFlag, NoNotify)
                ELSE [calls[p] EXCEPT !.pc = "insert"]]
    /\ UNCHANGED <<settings, flagged_contents, flag_instances, ret>>

\* FlagInstance.save, line 411: the flag instance is inserted; flag_added
\* goes on with the increment, or (status not 1) with the notifications
Insert(p) ==
    /\ calls[p].pc = "insert"
    /\ LET w == FlagInstance_write(flag_instances, FlagOf(p))
           self == calls[p].flagged_content
       IN  /\ flag_instances' = w.fis
           /\ calls' = [calls EXCEPT ![p] =
                  IF CountsAsFlag(self)
                  THEN [calls[p] EXCEPT !.pc = "increment", !.flag = w.self.id,
                                        !.flag_status = w.self.status]
                  ELSE Ended(p, NoExc, w.self, Notify(self, TRUE, TRUE))]
    /\ UNCHANGED <<settings, flagged_contents, ret>>

\* flag_added, lines 259-260: count = F('count') + 1 and save()
Increment(p) ==
    /\ calls[p].pc = "increment"
    /\ LET inc == IncrementCount(flagged_contents, calls[p].flagged_content)
       IN  IF inc.exc # NoExc
           THEN /\ calls' = [calls EXCEPT
                             ![p] = Ended(p, inc.exc, NoFlag, NoNotify)]
                /\ UNCHANGED flagged_contents
           ELSE /\ flagged_contents' = inc.fcs
                /\ calls' = [calls EXCEPT ![p].pc = "reload"]
    /\ UNCHANGED <<settings, flag_instances, ret>>

\* flag_added, lines 263-299: the count is read again, the signal and the
\* mails are sent, add returns
ReloadAndNotify(p) ==
    /\ calls[p].pc = "reload"
    /\ LET self == Reload(flagged_contents, calls[p].flagged_content)
       IN  calls' = [calls EXCEPT ![p] =
                Ended(p, NoExc,
                      [id |-> calls[p].flag, status |-> calls[p].flag_status],
                      Notify(self, TRUE, TRUE))]
    /\ UNCHANGED <<settings, flagged_contents, flag_instances, ret>>

NextConcurrent ==
    \E p \in Procs :
        \/ \E content_object \in ConcurrentObjects,
              status \in ConcurrentStatusArgs :
               Begin(p, content_object, status)
        \/ Create(p)
        \/ SaveAggregate(p)
        \/ Validate(p)
        \/ Insert(p)
        \/ Increment(p)
        \/ ReloadAndNotify(p)

SpecConcurrent == InitConcurrent /\ [][NextConcurrent]_vars

\* ------------------------------------------------ what the claims are about

\* the aggregate of a content object in a table, as a set (empty: none yet)
AggregatesOf(fcs, content_object) ==
    {r \in fcs : r.content_object = content_object}

\* the persisted count of a content object, 0 without an aggregate
CountOf(fcs, content_object) ==
    IF AggregatesOf(fcs, content_object) = {}
    THEN 0
    ELSE (CHOOSE r \in AggregatesOf(fcs, content_object) : TRUE).count

\* the flag instances of a content object with status 1
PlainFlags(fcs, fis, content_object) ==
    {f \in fis : /\ f.status = 1
                 /\ \E r \in AggregatesOf(fcs, content_object) :
                        r.id = f.flagged_content}

\* the status-1 flag instances of a user on a content object
PlainFlagsBy(fcs, fis, content_object, user) ==
    {f \in PlainFlags(fcs, fis, content_object) : f.user = user}

\* the status a call add(.., status) gives its new flag instance: the status
\* given, else the status of the aggregate, else the default of a new aggregate
StatusOfNewFlag(fcs, content_object, status) ==
    IF status # None /\ status # 0
    THEN status
    ELSE IF AggregatesOf(fcs, content_object) = {}
         THEN IF status = None THEN DefaultStatus ELSE status
         ELSE (CHOOSE r \in AggregatesOf(fcs, content_object) : TRUE).status

\* the content type of the object is one that may be flagged
ModelListed(content_object) ==
    MODELS = <<>> \/ \E i \in 1..Len(MODELS) : MODELS[i] = content_object[1]

\* the per-object limit is configured and reached for the content object
ObjectLimitReached(fcs, content_object) ==
    /\ LIMIT_FOR_OBJECT # None
    /\ LIMIT_FOR_OBJECT > 0
    /\ CountOf(fcs, content_object) >= LIMIT_FOR_OBJECT

\* the per-user limit is configured and reached for the user on the object
UserLimitReached(fcs, fis, content_object, user) ==
    /\ LIMIT_SAME_OBJECT_FOR_USER # None
    /\ LIMIT_SAME_OBJECT_FOR_USER > 0
    /\ Cardinality(PlainFlagsBy(fcs, fis, content_object, user))
           >= LIMIT_SAME_OBJECT_FOR_USER

\* the comment goes against ALLOW_COMMENTS: required and missing, or
\* not allowed and given
CommentAgainstPolicy(comment) ==
    LET given == comment # NoComment /\ comment # ""
    IN  (ALLOW_COMMENTS /\ ~given) \/ (~ALLOW_COMMENTS /\ given)

\* the counts of the aggregates are those of before the step
\* (a new aggregate starts at 0)
CountsKept ==
    \A r \in flagged_contents' :
        r.count = CountOf(flagged_contents, r.content_object)

\* the step is a call of add
IsAdd == ret'.op = "add"

\* ------------------------------------------------------------------ C1

\* C1: without a per-object and a per-user limit, once the concurrent add
\* calls have all returned, the count of every FlaggedContent is the number
\* of status-1 flag instances the successful calls have created for it.
C1_NoLostIncrement ==
    (/\ Busy = {}
     /\ LIMIT_FOR_OBJECT = None
     /\ LIMIT_SAME_OBJECT_FOR_USER = None
     /\ \A p \in Procs : calls[p].exc = NoExc) =>
        \A r \in flagged_contents :
            r.count = Cardinality({f \in flag_instances :
                                      f.flagged_content = r.id /\ f.status = 1})

\* ------------------------------------------------------------------ C2

\* C2: after any sequence of add calls run one at a time, the count of every
\* FlaggedContent is the number of its flag instances with status 1.
C2_CountIsNumberOfPlainFlags ==
    \A r \in flagged_contents :
        r.count = Cardinality({f \in flag_instances :
                                  f.flagged_content = r.id /\ f.status = 1})

\* a failed add after flags of both kinds: one counted, one with status 2
C2_Witness ==
    /\ ret.op = "add"
    /\ ret.exc # NoExc
    /\ \E r \in flagged_contents : r.count = 1
    /\ \E f \in flag_instances : f.status = 2

\* ------------------------------------------------------------------ C3

\* C3: with LIMIT_FOR_OBJECT = L > 0 and adds run one at a time, no count
\* exceeds L, a status-1 add on an item whose count is L raises
\* ContentFlaggedEnoughException and leaves the counts as they are, and
\* below L no add raises it.
C3_ObjectLimit ==
    [][(IsAdd /\ LIMIT_FOR_OBJECT # None /\ LIMIT_FOR_OBJECT > 0) =>
         LET obj == ret'.content_object
             before == CountOf(flagged_contents, obj)
             plain == StatusOfNewFlag(flagged_contents, obj, ret'.status) = 1
         IN  /\ CountOf(flagged_contents', obj) <= LIMIT_FOR_OBJECT
             /\ (plain /\ before >= LIMIT_FOR_OBJECT) =>
                    /\ ret'.exc = ContentFlaggedEnoughException
                    /\ CountsKept
                    /\ flag_instances' = flag_instances
             /\ ret'.exc = ContentFlaggedEnoughException =>
                    (plain /\ before = LIMIT_FOR_OBJECT)
             /\ (ret'.exc = NoExc /\ plain) =>
                    CountOf(flagged_contents', obj) = before + 1
      ]_vars

\* the add after the L-th flag was refused
C3_Witness ==
    /\ ret.op = "add"
    /\ ret.exc = ContentFlaggedEnoughException
    /\ LIMIT_FOR_OBJECT = 2
    /\ CountOf(flagged_contents, ret.content_object) = 2
    /\ Cardinality(PlainFlags(flagged_contents, flag_instances,
                              ret.content_object)) = 2

\* ------------------------------------------------------------------ C4

\* C4: with LIMIT_SAME_OBJECT_FOR_USER = K > 0, on an item that may be
\* flagged and has not reached the object limit, a status-1 add by a user
\* raises ContentAlreadyFlaggedByUserException exactly when that user has K
\* status-1 flag instances on the item; a user with fewer than K succeeds
\* (with a comment that follows the comment policy), whatever the others have.
C4_UserLimit ==
    [][(/\ IsAdd
        /\ LIMIT_SAME_OBJECT_FOR_USER # None
        /\ LIMIT_SAME_OBJECT_FOR_USER > 0
        /\ ModelListed(ret'.content_object)
        /\ ~ObjectLimitReached(flagged_contents, ret'.content_object)
        /\ StatusOfNewFlag(flagged_contents, ret'.content_object,
                           ret'.status) = 1) =>
         LET mine == Cardinality(PlainFlagsBy(flagged_contents, flag_instances,
                                              ret'.content_object, ret'.user))
         IN  /\ (ret'.exc = ContentAlreadyFlaggedByUserException)
                    <=> (mine = LIMIT_SAME_OBJECT_FOR_USER)
             /\ mine <= LIMIT_SAME_OBJECT_FOR_USER
             /\ (mine < LIMIT_SAME_OBJECT_FOR_USER
                 /\ ~CommentAgainstPolicy(ret'.comment)) => ret'.exc = NoExc
      ]_vars

\* a user with fewer than K flags has just flagged an item on which another
\* user has K flags
C4_Witness ==
    /\ ret.op = "add"
    /\ ret.exc = NoExc
    /\ ret.flag_status = 1
    /\ LIMIT_SAME_OBJECT_FOR_USER = 1
    /\ \E u \in Users \ {ret.user} :
           Cardinality(PlainFlagsBy(flagged_contents, flag_instances,
                                    ret.content_object, u)) = 1

\* ------------------------------------------------------------------ C5

\* the exception the validation order of the spec gives a call of add:
\* model, then object limit, then per-user limit, then comment
FirstViolation(fcs, fis, user, content_object, comment, status) ==
    LET plain == StatusOfNewFlag(fcs, content_object, status) = 1
    IN  IF ~ModelListed(content_object)
        THEN ModelCannotBeFlaggedException
        ELSE IF plain /\ ObjectLimitReached(fcs, content_object)
        THEN ContentFlaggedEnoughException
        ELSE IF plain /\ UserLimitReached(fcs, fis, content_object, user)
        THEN ContentAlreadyFlaggedByUserException
        ELSE IF CommentAgainstPolicy(comment)
        THEN FlagCommentException
        ELSE NoExc

\* C5: the error of add is that of the first violated check in the order
\* model-flaggable, object limit, per-user limit, comment policy; with the
\* object limit and the user limit both reached it is
\* ContentFlaggedEnoughException.
C5_ValidationOrder ==
    [][IsAdd =>
         ret'.exc = FirstViolation(flagged_contents, flag_instances, ret'.user,
                                   ret'.content_object, ret'.comment,
                                   ret'.status)
      ]_vars

\* an add refused for the object limit, by a user who had also reached the
\* per-user limit, with a comment against the policy
C5_Witness ==
    /\ ret.op = "add"
    /\ ret.exc = ContentFlaggedEnoughException
    /\ ObjectLimitReached(flagged_contents, ret.content_object)
    /\ UserLimitReached(flagged_contents, flag_instances, ret.content_object,
                        ret.user)
    /\ CommentAgainstPolicy(ret.comment)

\* ------------------------------------------------------------------ C6

\* C6: when add fails with ContentFlaggedEnoughException,
\* ContentAlreadyFlaggedByUserException or FlagCommentException, the
\* FlaggedContent rows and the FlagInstance rows are those of before the call.
C6_FailedAddChangesNothing ==
    [][(IsAdd /\ ret'.exc \in {ContentFlaggedEnoughException,
                              ContentAlreadyFlaggedByUserException,
                              FlagCommentException}) =>
         /\ flagged_contents' = flagged_contents
         /\ flag_instances' = flag_instances
      ]_vars

\* ------------------------------------------------------------------ C7

\* C7: a new flag instance whose comment goes against ALLOW_COMMENTS (none
\* given where required, one given where not allowed) is never persisted and
\* no count is incremented; the error is FlagCommentException whenever the
\* model and limit checks pass; a comment that follows the policy never
\* raises FlagCommentException.
C7_CommentPolicy ==
    [][IsAdd =>
         LET obj == ret'.content_object
             plain == StatusOfNewFlag(flagged_contents, obj, ret'.status) = 1
             earlier ==
                 \/ ~ModelListed(obj)
                 \/ plain /\ ObjectLimitReached(flagged_contents, obj)
                 \/ plain /\ UserLimitReached(flagged_contents, flag_instances,
                                              obj, ret'.user)
         IN  IF CommentAgainstPolicy(ret'.comment)
             THEN /\ ret'.exc # NoExc
                  /\ ~earlier => ret'.exc = FlagCommentException
                  /\ flag_instances' = flag_instances
                  /\ CountsKept
             ELSE /\ ret'.exc # FlagCommentException
                  /\ ~earlier => ret'.exc = NoExc
      ]_vars

\* a comment was given where comments are not allowed, on an item that
\* already has a flag: the add was refused
C7_Witness ==
    /\ ret.op = "add"
    /\ ret.exc = FlagCommentException
    /\ ~ALLOW_COMMENTS
    /\ ret.comment = "spam"
    /\ CountOf(flagged_contents, ret.content_object) = 1

\* no comment where one is required: None or the empty string
C7_WitnessMissing ==
    /\ ret.op = "add"
    /\ ret.exc = FlagCommentException
    /\ ALLOW_COMMENTS
    /\ ret.comment = ""

\* ------------------------------------------------------------------ C8

\* the rules are in ascending order of min_count, with steps >= 1
Ascending(rules) ==
    /\ \A i \in 1..Len(rules) : rules[i][2] >= 1
    /\ \A i, j \in 1..Len(rules) : i < j => rules[i][1] < rules[j][1]

\* the mail rule of the documentation for count c: the limit is configured
\* and reached, or the last rule with min_count <= c exists and
\* (c - min_count) mod step = 0
MailRule(limit, rules, c) ==
    \/ limit # None /\ limit > 0 /\ c >= limit
    \/ \E i \in 1..Len(rules) :
           /\ rules[i][1] <= c
           /\ \A j \in 1..Len(rules) : rules[j][1] <= c => j <= i
           /\ (c - rules[i][1]) % rules[i][2] = 0

\* C8: for a successful status-1 add whose count after the increment is c,
\* with ascending rules, a mail is sent iff send_mails was asked, SEND_MAILS
\* is on and the mail rule holds for c; with the rules [(5,1),(10,5)] and no
\* limit, that is at 5,6,7,8,9,10,15,20 and at no other count up to 24.
C8_MailRule ==
    [][(IsAdd /\ ret'.exc = NoExc /\ ret'.flag_status = 1
        /\ Ascending(SEND_MAILS_RULES)) =>
         LET c == CountOf(flagged_contents', ret'.content_object)
         IN  /\ ret'.mail <=>
                   /\ ret'.send_mails
                   /\ SEND_MAILS
                   /\ MailRule(LIMIT_FOR_OBJECT, SEND_MAILS_RULES, c)
             /\ c = CountOf(flagged_contents, ret'.content_object) + 1
             /\ (/\ ret'.send_mails
                 /\ SEND_MAILS
                 /\ LIMIT_FOR_OBJECT = None
                 /\ SEND_MAILS_RULES = <<<<5, 1>>, <<10, 5>>>>
                 /\ c <= 24) =>
                    (ret'.mail <=> c \in {5, 6, 7, 8, 9, 10, 15, 20})
      ]_vars

\* the mail of the 15th flag under the rules [(5,1),(10,5)]
C8_Witness ==
    /\ ret.op = "add"
    /\ ret.mail
    /\ LIMIT_FOR_OBJECT = None
    /\ SEND_MAILS_RULES = <<<<5, 1>>, <<10, 5>>>>
    /\ CountOf(flagged_contents, ret.content_object) = 15

\* no mail for the 12th flag under the same rules, though one was asked
C8_WitnessNoMail ==
    /\ ret.op = "add"
    /\ ret.send_mails
    /\ SEND_MAILS
    /\ ~ret.mail
    /\ SEND_MAILS_RULES = <<<<5, 1>>, <<10, 5>>>>
    /\ CountOf(flagged_contents, ret.content_object) = 12

\* ------------------------------------------------------------------ C9

\* C9: an add with an explicit status that changes the status of the
\* aggregate sends no signal and no mail, and a signal or a mail is only ever
\* sent for a new flag instance with status 1.
C9_NoNotificationOnStatusUpdate ==
    [][IsAdd =>
         LET rows == AggregatesOf(flagged_contents, ret'.content_object)
         IN  /\ (/\ ret'.status # None
                 /\ \E r \in rows : r.status # ret'.status) =>
                    (~ret'.signal /\ ~ret'.mail)
             /\ (ret'.signal \/ ret'.mail) => ret'.flag_status = 1
      ]_vars

\* ------------------------------------------------------------------ C10

\* C10: a call of get_or_create_for_object that succeeds leaves one
\* FlaggedContent for the object and returns it; a call for an object that has
\* one (a second call) returns that same record with created = False and
\* changes no row, whatever creator and status it is given; a call for an
\* object that has none returns created = True.
C10_GetOrCreateTwice ==
    [][ret'.op = "get_or_create_for_object" =>
         LET before == AggregatesOf(flagged_contents, ret'.content_object)
             after == AggregatesOf(flagged_contents', ret'.content_object)
         IN  /\ ret'.exc = NoExc =>
                    /\ Cardinality(after) = 1
                    /\ \A r \in after : r.id = ret'.flagged_content
             /\ before # {} =>
                    /\ ret'.exc = NoExc
                    /\ ~ret'.created
                    /\ \A r \in before : r.id = ret'.flagged_content
                    /\ flagged_contents' = flagged_contents
             /\ (before = {} /\ ret'.exc = NoExc) =>
                    /\ ret'.created
                    /\ \A r \in after :
                           /\ r.creator = ret'.content_creator
                           /\ r.status = IF ret'.status = None
                                         THEN DefaultStatus ELSE ret'.status
      ]_vars

\* a second call with another creator and another status than the stored ones
C10_Witness ==
    /\ ret.op = "get_or_create_for_object"
    /\ ret.exc = NoExc
    /\ ~ret.created
    /\ ret.status # None
    /\ \E r \in AggregatesOf(flagged_contents, ret.content_object) :
           /\ r.id = ret.flagged_content
           /\ r.creator # ret.content_creator
           /\ r.status # ret.status
           /\ r.count = 0
           /\ r.moderator = NoUser

\* ------------------------------------------------------------------ C11

\* every content object has at most one FlaggedContent row
OnePerObject(fcs) ==
    \A r1, r2 \in fcs : r1.content_object = r2.content_object => r1 = r2

\* C11: in every state, also while add calls for a content object without a
\* FlaggedContent run concurrently, a content object has at most one
\* FlaggedContent, every flag instance belongs to a FlaggedContent, and the
\* flag instance a call has created belongs to the one of the call's object.
C11_OneAggregatePerObject ==
    /\ OnePerObject(flagged_contents)
    /\ \A f \in flag_instances :
           \E r \in flagged_contents : r.id = f.flagged_content
    /\ \A p \in Procs :
           (calls[p].pc = "idle" /\ calls[p].flag # 0) =>
               \E r \in flagged_contents :
                   /\ r.content_object = calls[p].content_object
                   /\ r.id = RowById(flag_instances, calls[p].flag).flagged_content

\* two calls found no FlaggedContent for the same object; the insert of one
\* was refused, and both have created their flag instance
C11_Witness ==
    /\ Busy = {}
    /\ \E p, q \in Procs :
           /\ p # q
           /\ calls[p].content_object = calls[q].content_object
           /\ calls[q].integrity_error
           /\ ~calls[p].integrity_error
           /\ calls[p].flag # 0
           /\ calls[q].flag # 0
           /\ calls[p].flag # calls[q].flag
    /\ Cardinality(flagged_contents) = 1

\* ------------------------------------------------------------------ C12

\* C12: the save of a persisted FlagInstance raises nothing, whatever the
\* limits and the comment policy say of it, writes its row, leaves every
\* FlaggedContent (and so every count) as it is, and sends no signal and no
\* mail.
C12_ResaveFlagInstance ==
    [][ret'.op = "FlagInstance.save" =>
         /\ ret'.exc = NoExc
         /\ flagged_contents' = flagged_contents
         /\ {f.id : f \in flag_instances'} = {f.id : f \in flag_instances}
         /\ \E f \in flag_instances' :
                /\ f.id = ret'.flag
                /\ f.comment = ret'.comment
                /\ f.status = ret'.status
         /\ ~ret'.signal
         /\ ~ret'.mail
      ]_vars

\* a flag instance was saved again as a status-1 flag with a comment against
\* the policy, on an item at its object limit, by a user at the user limit,
\* with the signal and the mails asked for
C12_Witness ==
    /\ ret.op = "FlagInstance.save"
    /\ ret.exc = NoExc
    /\ ret.status = 1
    /\ ret.send_signal
    /\ ret.send_mails
    /\ ModelListed(ret.content_object)
    /\ CommentAgainstPolicy(ret.comment)
    /\ ObjectLimitReached(flagged_contents, ret.content_object)
    /\ UserLimitReached(flagged_contents, flag_instances, ret.content_object,
                        ret.user)

\* ------------------------------------------------------------------ C13

\* C13 as stated: the save of a persisted FlaggedContent never fails (the
\* model check is not run again), increments no count and notifies nobody.
C13_ResaveNeverValidates ==
    [][ret'.op = "FlaggedContent.save" =>
         /\ ret'.exc = NoExc
         /\ CountsKept
         /\ flag_instances' = flag_instances
         /\ ~ret'.signal
         /\ ~ret'.mail
      ]_vars

\* C13 amended: the save of a persisted FlaggedContent runs the model check
\* again: it raises ModelCannotBeFlaggedException and writes nothing when the
\* model of the object may not be flagged, and raises nothing otherwise; it
\* never changes a count or a flag instance and notifies nobody.
C13_ResaveChecksModelOnly ==
    [][ret'.op = "FlaggedContent.save" =>
         /\ ret'.exc = IF ModelListed(ret'.content_object)
                       THEN NoExc ELSE ModelCannotBeFlaggedException
         /\ ret'.exc # NoExc => flagged_contents' = flagged_contents
         /\ ret'.exc = NoExc =>
                \E r \in flagged_contents' :
                    r.id = ret'.flagged_content /\ r.status = ret'.status
         /\ CountsKept
         /\ flag_instances' = flag_instances
         /\ ~ret'.signal
         /\ ~ret'.mail
      ]_vars

\* the save of a flagged FlaggedContent was refused: its model is no longer
\* in MODELS
C13_Witness ==
    /\ ret.op = "FlaggedContent.save"
    /\ ret.exc = ModelCannotBeFlaggedException
    /\ \E r \in flagged_contents :
           r.id = ret.flagged_content /\ r.count >= 1

\* ------------------------------------------------------------------ C14

\* the type tag names a model: it is not malformed
WellFormed(content_type) == Len(content_type) = 2

\* the type tag names a model of the allow-list
TagListed(content_type) ==
    /\ WellFormed(content_type)
    /\ \E i \in 1..Len(MODELS) : MODELS[i] = content_type[1]

\* C14 as stated: model_can_be_flagged is true iff MODELS is not set or the
\* type tag is in MODELS, and it is false for a malformed type tag under
\* every setting; assert_model_can_be_flagged raises
\* ModelCannotBeFlaggedException exactly when it is false.
C14_MalformedIsNeverFlaggable ==
    [][/\ ret'.op = "model_can_be_flagged" =>
              /\ ret'.value <=> (MODELS = <<>> \/ TagListed(ret'.content_object))
              /\ ~WellFormed(ret'.content_object) => ~ret'.value
              /\ ret'.exc = NoExc
       /\ ret'.op = "assert_model_can_be_flagged" =>
              /\ (ret'.exc = ModelCannotBeFlaggedException)
                     <=> ~model_can_be_flagged(ret'.content_object)
              /\ ~WellFormed(ret'.content_object) =>
                     ret'.exc = ModelCannotBeFlaggedException
      ]_vars

\* C14 amended: model_can_be_flagged is true iff MODELS is not set or the
\* type tag is in MODELS; for a malformed type tag it is false when MODELS is
\* set and true when it is not; assert_model_can_be_flagged raises
\* ModelCannotBeFlaggedException exactly when MODELS is set and the type tag
\* is not in it, and nothing otherwise.
C14_ModelCanBeFlagged ==
    [][/\ ret'.op = "model_can_be_flagged" =>
              /\ ret'.value <=> (MODELS = <<>> \/ TagListed(ret'.content_object))
              /\ ~WellFormed(ret'.content_object) =>
                     (ret'.value <=> MODELS = <<>>)
              /\ ret'.exc = NoExc
       /\ ret'.op = "assert_model_can_be_flagged" =>
              ret'.exc = IF MODELS = <<>> \/ TagListed(ret'.content_object)
                         THEN NoExc ELSE ModelCannotBeFlaggedException
      ]_vars

\* a malformed type tag was found flaggable: MODELS is not set
C14_Witness ==
    /\ ret.op = "model_can_be_flagged"
    /\ ~WellFormed(ret.content_object)
    /\ MODELS = <<>>
    /\ ret.value

\* a malformed type tag was refused by assert_model_can_be_flagged
C14_WitnessRefused ==
    /\ ret.op = "assert_model_can_be_flagged"
    /\ ~WellFormed(ret.content_object)
    /\ MODELS # <<>>
    /\ ret.exc = ModelCannotBeFlaggedException

\* ------------------------------------------------------------------ C15

NoObjectLimit == LIMIT_FOR_OBJECT = None \/ LIMIT_FOR_OBJECT = 0

\* C16: without a per-object limit (LIMIT_FOR_OBJECT None or 0),
\* can_be_flagged is true of every FlaggedContent in every reachable state,
\* whatever its count; with a limit it is true iff count < limit.
C16_CanBeFlagged ==
    [][ret'.op = "can_be_flagged" =>
         LET c == CountOf(flagged_contents, ret'.content_object)
         IN  /\ NoObjectLimit => ret'.value
             /\ ~NoObjectLimit => (ret'.value <=> c < LIMIT_FOR_OBJECT)
      ]_vars

\* without a limit, an item flagged twice can still be flagged
C16_Witness ==
    /\ ret.op = "can_be_flagged"
    /\ NoObjectLimit
    /\ ret.value
    /\ CountOf(flagged_contents, ret.content_object) = 2

\* with a limit of 2, an item flagged twice can not
C16_WitnessLimit ==
    /\ ret.op = "can_be_flagged"
    /\ LIMIT_FOR_OBJECT = 2
    /\ ~ret.value
    /\ CountOf(flagged_contents, ret.content_object) = 2

\* ------------------------------------------------------------------ C17

\* C17: with LIMIT_FOR_OBJECT = L, no count exceeds L in any state, for
\* every interleaving of the steps of concurrent add calls.
C17_CountWithinLimit ==
    (LIMIT_FOR_OBJECT # None /\ LIMIT_FOR_OBJECT > 0) =>
        \A r \in flagged_contents : r.count <= LIMIT_FOR_OBJECT

\* ------------------------------------------------------------------ C18

\* C18: the flag instance of a successful add has the status given, else the
\* status of the aggregate; an add whose flag instance has another status
\* than 1 (given, or that of an aggregate a moderator has moved) succeeds
\* whatever the object limit and the per-user limit say, persists the
\* instance, and leaves the count as it is.
C18_StatusOfNewFlag ==
    [][(IsAdd /\ ModelListed(ret'.content_object)
        /\ ~CommentAgainstPolicy(ret'.comment)) =>
         LET obj == ret'.content_object
             st == StatusOfNewFlag(flagged_contents, obj, ret'.status)
         IN  /\ ret'.exc = NoExc =>
                    /\ ret'.flag_status = st
                    /\ \E f \in flag_instances' \ flag_instances :
                           f.id = ret'.flag /\ f.status = st
             /\ st # 1 =>
                    /\ ret'.exc = NoExc
                    /\ CountsKept
      ]_vars

\* an add without a status, on an aggregate a moderator has given status 2,
\* at the object limit, by a user at the per-user limit: it succeeded with a
\* flag instance of status 2
C18_Witness ==
    /\ ret.op = "add"
    /\ ret.exc = NoExc
    /\ ret.status = None
    /\ ret.flag_status = 2
    /\ ObjectLimitReached(flagged_contents, ret.content_object)
    /\ UserLimitReached(flagged_contents, flag_instances, ret.content_object,
                        ret.user)
    /\ \E f \in flag_instances : f.id = ret.flag /\ f.status = 2

\* ------------------------------------------------------------------ C19

\* C19: after add(user, obj, status = s) on an object whose model may be
\* flagged, whether the call succeeds or a later check refuses it, the object
\* has its FlaggedContent; with s given its status is s and its moderator is
\* user if s is not the default status and the moderator of before if it is;
\* without s its status and moderator are those of before (1 and none for a
\* new aggregate); its creator is that of before (the creator given, for a
\* new aggregate); its count is that of before, plus one for a new flag
\* instance of status 1.
C19_StatusAndModerator ==
    [][(IsAdd /\ ModelListed(ret'.content_object)) =>
         LET obj == ret'.content_object
             s == ret'.status
             before == AggregatesOf(flagged_contents, obj)
             after == AggregatesOf(flagged_contents', obj)
             old == IF before = {}
                    THEN [status |-> DefaultStatus, moderator |-> NoUser,
                          creator |-> ret'.content_creator, count |-> 0]
                    ELSE CHOOSE r \in before : TRUE
         IN  /\ Cardinality(after) = 1
             /\ \A r \in after :
                    /\ r.status = IF s # None THEN s ELSE old.status
                    /\ r.moderator = IF s # None /\ s # DefaultStatus
                                     THEN ret'.user ELSE old.moderator
                    /\ r.creator = old.creator
                    /\ r.count = old.count +
                           (IF ret'.exc = NoExc /\ ret'.flag_status = 1
                            THEN 1 ELSE 0)
      ]_vars

\* an add with the default status, on an aggregate that has a moderator, a
\* creator other than the one given, and a flag: status 1 again, the same
\* moderator, the same creator
C19_Witness ==
    /\ ret.op = "add"
    /\ ret.status = DefaultStatus
    /\ \E r \in AggregatesOf(flagged_contents, ret.content_object) :
           /\ r.status = DefaultStatus
           /\ r.moderator # NoUser
           /\ r.moderator # ret.user
           /\ r.creator # ret.content_creator
           /\ r.count >= 1

\* an add with status 2 that recorded its user as moderator
C19_WitnessModerator ==
    /\ ret.op = "add"
    /\ ret.status = 2
    /\ ret.exc = NoExc
    /\ \E r \in AggregatesOf(flagged_contents, ret.content_object) :
           /\ r.status = 2
           /\ r.moderator = ret.user
           /\ r.count >= 1

\* ------------------------------------------------------------------ C20

C20_WitnessRefused ==
    /\ ret.op = "add"
    /\ ret.send_signal
    /\ ret.exc = ContentFlaggedEnoughException
    /\ ~ret.signal


\* ----------------------------------------------------------------- C21

\* every rule of the list has a step >= 1
StepsPositive(rules) == \A i \in 1..Len(rules) : rules[i][2] >= 1

\* the last rule in list order with min_count <= c exists and
\* (c - min_count) mod step = 0
LastRuleInListOrder(rules, c) ==
    \E i \in 1..Len(rules) :
        /\ rules[i][1] <= c
        /\ \A j \in 1..Len(rules) : rules[j][1] <= c => j <= i
        /\ (c - rules[i][1]) % rules[i][2] = 0

\* the rule just before the first rule of the list with min_count > c (the
\* last rule when there is none) exists, its step is not 0 and
\* (c - min_count) mod step = 0
RuleBeforeFirstAbove(rules, c) ==
    \E i \in 1..Len(rules) :
        /\ \A j \in 1..i : rules[j][1] <= c
        /\ i < Len(rules) => rules[i + 1][1] > c
        /\ rules[i][2] # 0
        /\ (c - rules[i][1]) % rules[i][2] = 0

\* the object limit is configured and the count c has reached it
LimitReached(limit, c) == limit # None /\ limit > 0 /\ c >= limit

\* C21 as stated: for a successful status-1 add with mails asked and enabled
\* whose count after the increment is c, with the object limit not reached
\* and any list of rules with steps >= 1, ascending or not, a mail is sent
\* iff the last rule in list order with min_count <= c exists and
\* (c - min_count) mod step = 0.
C21_LastRuleInListOrder ==
    [][(IsAdd /\ ret'.exc = NoExc /\ ret'.flag_status = 1
        /\ ret'.send_mails /\ SEND_MAILS
        /\ StepsPositive(SEND_MAILS_RULES)) =>
         LET c == CountOf(flagged_contents', ret'.content_object)
         IN  ~LimitReached(LIMIT_FOR_OBJECT, c) =>
                 (ret'.mail <=> LastRuleInListOrder(SEND_MAILS_RULES, c))
      ]_vars

\* C21: for a successful status-1 add whose count after the increment is c,
\* with any list of rules, a mail is sent iff mails were asked and are
\* enabled and either the object limit is reached or the walk over the list,
\* which stops at the first rule with min_count > c, has kept a rule: the
\* rule just before that stop, with a step that is not 0 and
\* (c - min_count) mod step = 0.
C21_RuleBeforeFirstAbove ==
    [][(IsAdd /\ ret'.exc = NoExc /\ ret'.flag_status = 1) =>
         LET c == CountOf(flagged_contents', ret'.content_object)
         IN  /\ c = CountOf(flagged_contents, ret'.content_object) + 1
             /\ ret'.mail <=>
                   /\ ret'.send_mails
                   /\ SEND_MAILS
                   /\ \/ LimitReached(LIMIT_FOR_OBJECT, c)
                      \/ RuleBeforeFirstAbove(SEND_MAILS_RULES, c)
      ]_vars

\* the mail of the 5th flag under the rules [(3,2),(1,1),(6,3)]: the rule
\* used is (1,1), which follows a rule with a higher min_count
C21_Witness ==
    /\ ret.op = "add"
    /\ ret.exc = NoExc
    /\ ret.mail
    /\ LIMIT_FOR_OBJECT = None
    /\ SEND_MAILS_RULES = <<<<3, 2>>, <<1, 1>>, <<6, 3>>>>
    /\ CountOf(flagged_contents, ret.content_object) = 5

\* no mail for the 2nd flag under the rules [(5,1),(2,3)], though one was
\* asked: the walk stops at (5,1) and never looks at (2,3)
C21_WitnessBreak ==
    /\ ret.op = "add"
    /\ ret.exc = NoExc
    /\ ret.send_mails
    /\ SEND_MAILS
    /\ ~ret.mail
    /\ LIMIT_FOR_OBJECT = None
    /\ SEND_MAILS_RULES = <<<<5, 1>>, <<2, 3>>>>
    /\ CountOf(flagged_contents, ret.content_object) = 2

====
